---------------------------- MODULE Spec2Model ----------------------------
(***************************************************************************)
(* A model of egui-snarl's input-event policies (src/ui/events.rs) and of  *)
(* the demo viewer's connection rules (examples/demo.rs).                  *)
(*                                                                         *)
(* The module holds several specifications over one set of variables:     *)
(*   SpecDefault  the default GraphEvents methods, applied to one frame's  *)
(*                response and input state;                                *)
(*   SpecClick    ClickGraphEvents, a policy with a drag-mode that lives   *)
(*                across calls;                                            *)
(*   SpecConnect  DemoViewer::connect on a small graph of demo nodes;     *)
(*   SpecFrame    the interaction pass of one frame after the other, which  *)
(*                acts on the default policy's answers;                    *)
(*   SpecClickCalls   the methods ClickGraphEvents inherits, on one frame; *)
(*   SpecClickPolicy  ClickGraphEvents with every method callable, asked   *)
(*                about the responses of several nodes;                    *)
(*   SpecViewport one value taken through the Viewport's conversions       *)
(*                (src/ui/background_pattern.rs);                          *)
(*   SpecGrid     Grid::draw on one viewport;                              *)
(*   SpecConnectFresh  DemoViewer::connect from a graph with no wire;      *)
(*   SpecRebind   DemoViewer::show_input re-parsing the ExprNode's text.   *)
(* A specification leaves the variables of the others at their initial     *)
(* values.                                                                 *)
(***************************************************************************)
EXTENDS Integers, FiniteSets, Sequences, TLC

VARIABLES
    response,       \* the egui::Response handed to the last method call
    input_state,    \* the egui::InputState handed to the last method call
    method,         \* the GraphEvents method called last ("none" at start)
    result,         \* what that call returned
    drag,           \* ClickGraphEvents.drag
    drag_before,    \* ClickGraphEvents.drag when the last call was entered
    node_moved,     \* {v} if node_move was called last in the frame of
                    \* the last call and returned v, {} if it was not called
    called_on,      \* the node whose response the last call was handed
    entered_on,     \* the node whose response made the drag-mode Node
    wires,          \* Snarl: the wires, pairs <<output pin, input pin>>
    connect_call,   \* the last DemoViewer::connect call and how it ended
    new_wire,       \* the pending wire (DrawingNewWire), or NoWire
    frame,          \* what the last frame of the interaction pass did
    viewport,       \* the Viewport: screen rectangle, scale and offset
    conv,           \* a value taken through the Viewport's conversions
    grid,           \* the Grid pattern: spacing and angle
    painted,        \* what Grid::draw painted last
    bindings,       \* ExprNode.bindings: the variable names, in order
    rebind          \* the last re-parse of the expression in show_input

event_vars ==
    <<response, input_state, method, result, drag, drag_before, node_moved,
      called_on, entered_on>>
graph_vars == <<wires, connect_call>>
frame_vars == <<new_wire, frame>>
view_vars == <<viewport, conv, grid, painted>>
expr_vars == <<bindings, rebind>>
vars == <<event_vars, graph_vars, frame_vars, view_vars, expr_vars>>

---------------------------------------------------------------------------
(* Bounds of the model.                                                    *)

\* Pointer and drag deltas have coordinates in -MaxDelta .. MaxDelta.
MaxDelta == 1

\* How many pointer buttons may cause the same kind of event in one frame.
MaxSimultaneous == 1

\* How many bindings (numeric inputs) the expression node of the graph has.
MaxBindings == 1

---------------------------------------------------------------------------
(* egui::PointerButton, egui::Vec2, egui::Response, egui::InputState.      *)

Buttons == {"Primary", "Secondary", "Middle"}

ButtonSets == {s \in SUBSET Buttons : Cardinality(s) <= MaxSimultaneous}

ZERO == <<0, 0>>

\* The sampled vectors: the zero vector and vectors whose two coordinates
\* differ, so that a swapped or dropped coordinate shows.
Deltas == {<<d, 0 - (2 * d)>> : d \in (0 - MaxDelta) .. MaxDelta}

Neg(v) == <<0 - v[1], 0 - v[2]>>

\* A response records, per kind of event, the buttons that caused it this
\* frame.  A drag that starts in a frame is also a drag of that frame.
Responses ==
    {r \in [clicked : ButtonSets, double_clicked : BOOLEAN,
            drag_started : ButtonSets, dragged : ButtonSets,
            drag_stopped : ButtonSets, drag_delta : Deltas] :
        r.drag_started \subseteq r.dragged}

InputStates ==
    [shift : BOOLEAN, command : BOOLEAN, escape : BOOLEAN,
     secondary_down : BOOLEAN, pointer_delta : Deltas]

IdleResponse ==
    [clicked |-> {}, double_clicked |-> FALSE, drag_started |-> {},
     dragged |-> {}, drag_stopped |-> {}, drag_delta |-> ZERO]

IdleInput ==
    [shift |-> FALSE, command |-> FALSE, escape |-> FALSE,
     secondary_down |-> FALSE, pointer_delta |-> ZERO]

clicked_by(r, b) == b \in r.clicked
clicked(r) == r.clicked # {}
double_clicked(r) == r.double_clicked
drag_started_by(r, b) == b \in r.drag_started
dragged_by(r, b) == b \in r.dragged
dragged(r) == r.dragged # {}
drag_stopped_by(r, b) == b \in r.drag_stopped
drag_stopped(r) == r.drag_stopped # {}
drag_delta(r) == r.drag_delta
button_down(i, b) == b = "Secondary" /\ i.secondary_down
key_pressed_Escape(i) == i.escape
pointer_delta(i) == i.pointer_delta

---------------------------------------------------------------------------
(* trait GraphEvents: the default method bodies.                           *)

remove_hovered_wire(background_response, i) ==
    clicked_by(background_response, "Secondary")

\* start_select_area reading Ctrl/Cmd where the source reads Shift.
start_select_area_on_command(background_response, i) ==
    drag_started_by(background_response, "Primary") /\ i.command

start_select_area(background_response, i) ==
    drag_started_by(background_response, "Primary") /\ i.shift

stop_select_area(background_response, i) ==
    drag_stopped_by(background_response, "Primary")

move_area(background_response, i) ==
    dragged_by(background_response, "Primary")

move_area_delta(background_response, i) ==
    Neg(drag_delta(background_response))

\* cancel_new_wire on a secondary click, as remove_hovered_wire, where the
\* source reads the button held down.
cancel_new_wire_on_click(background_response, i) ==
    clicked_by(background_response, "Secondary")

cancel_new_wire(background_response, i) ==
    button_down(i, "Secondary")

do_centering(background_response, i) ==
    double_clicked(background_response)

deselect_all_nodes(background_response, i) ==
    i.command /\ clicked_by(background_response, "Primary")

\* node_move without the test that Ctrl/Cmd is released.
node_move_ignores_command(r, i) ==
    ~i.shift /\ dragged_by(r, "Primary")

node_move(r, i) ==
    ~i.shift /\ ~i.command /\ dragged_by(r, "Primary")

node_move_delta(r, i) ==
    drag_delta(r)

select_one_node(r, i) ==
    (clicked_by(r, "Primary") \/ dragged_by(r, "Primary")) /\ i.shift

deselect_one_node(r, i) ==
    (clicked_by(r, "Primary") \/ dragged_by(r, "Primary")) /\ i.command

not_to_top(r, i) ==
    clicked(r) \/ dragged(r)

remove_wire(r, i) ==
    clicked_by(r, "Secondary")

start_drag_wire(r, i) ==
    drag_started_by(r, "Primary")

stop_drag_wire(r, i) ==
    drag_stopped(r)

start_new_wire_out(r, i) ==
    drag_started_by(r, "Primary") /\ i.command

\* start_new_wire_in without the test that Ctrl/Cmd is released.
start_new_wire_in_ignores_command(r, i) ==
    drag_started_by(r, "Primary")

start_new_wire_in(r, i) ==
    drag_started_by(r, "Primary") /\ ~i.command

drop_inputs_pin(r, i) ==
    drag_started_by(r, "Primary") /\ i.command /\ ~i.shift

---------------------------------------------------------------------------
(* examples/demo.rs: the demo's nodes, their pins, and the wires.          *)

\* One node of each DemoNode variant; a wire may lead from a node to itself.
Sink == 1
Number == 2
String == 3
ShowImage == 4
ExprNode == 5
NodeIds == {Sink, Number, String, ShowImage, ExprNode}

inputs(node) ==
    CASE node = Sink -> 1
      [] node = Number -> 0
      [] node = String -> 0
      [] node = ShowImage -> 1
      [] node = ExprNode -> 1 + MaxBindings

outputs(node) ==
    CASE node = Sink -> 0
      [] node = Number -> 1
      [] node = String -> 1
      [] node = ShowImage -> 1
      [] node = ExprNode -> 1

\* Pin indices count from 0, as in the source.
InPinIds ==
    {p \in [node : NodeIds, input : 0 .. MaxBindings] : p.input < inputs(p.node)}
OutPinIds ==
    {p \in [node : NodeIds, output : {0}] : p.output < outputs(p.node)}

\* No node: the id of a node counts from 1.
NoNode == 0

NoPin == [node |-> 0]

\* Snarl::in_pin: an input pin together with the outputs wired to it.
in_pin(w, id) == [id |-> id, remotes |-> {o \in OutPinIds : <<o, id>> \in w}]
out_pin(w, id) == [id |-> id, remotes |-> {i \in InPinIds : <<id, i>> \in w}]

Snarl_connect(w, from, to) == w \cup {<<from, to>>}
Snarl_disconnect(w, from, to) == w \ {<<from, to>>}
Snarl_drop_inputs(w, to) == {x \in w : x[2] # to}

\* The match of connect with a Number output let through to an image input.
Validate_number_to_image(from_node, to_node, to_input) ==
    CASE from_node = Sink -> "unreachable"
      [] from_node # Sink /\ to_node = Sink -> "accept"
      [] from_node # Sink /\ to_node = Number -> "unreachable"
      [] from_node # Sink /\ to_node = String -> "unreachable"
      [] from_node = Number /\ to_node = ShowImage -> "accept"
      [] from_node = ShowImage /\ to_node = ShowImage -> "reject"
      [] from_node = String /\ to_node = ShowImage -> "accept"
      [] from_node = ExprNode /\ to_node = ExprNode -> "accept"
      [] from_node = Number /\ to_node = ExprNode -> "accept"
      [] from_node = String /\ to_node = ExprNode ->
            IF to_input = 0 THEN "accept" ELSE "reject"
      [] from_node = ShowImage /\ to_node = ExprNode -> "reject"
      [] from_node = ExprNode /\ to_node = ShowImage -> "reject"

\* The match of DemoViewer::connect, arm by arm and in its order: "accept"
\* falls through to the rewiring, "reject" returns, "unreachable" panics.
Validate(from_node, to_node, to_input) ==
    CASE from_node = Sink -> "unreachable"
      [] from_node # Sink /\ to_node = Sink -> "accept"
      [] from_node # Sink /\ to_node = Number -> "unreachable"
      [] from_node # Sink /\ to_node = String -> "unreachable"
      [] from_node = Number /\ to_node = ShowImage -> "reject"
      [] from_node = ShowImage /\ to_node = ShowImage -> "reject"
      [] from_node = String /\ to_node = ShowImage -> "accept"
      [] from_node = ExprNode /\ to_node = ExprNode -> "accept"
      [] from_node = Number /\ to_node = ExprNode -> "accept"
      [] from_node = String /\ to_node = ExprNode ->
            IF to_input = 0 THEN "accept" ELSE "reject"
      [] from_node = ShowImage /\ to_node = ExprNode -> "reject"
      [] from_node = ExprNode /\ to_node = ShowImage -> "reject"

\* snarl.disconnect for every remote of `to`, one after the other.
RECURSIVE DisconnectRemotes(_, _, _)
DisconnectRemotes(w, remotes, to) ==
    IF remotes = {} THEN w
    ELSE LET remote == CHOOSE r \in remotes : TRUE
         IN  DisconnectRemotes(Snarl_disconnect(w, remote, to),
                               remotes \ {remote}, to)

\* connect without the loop that disconnects the destination's remotes.
DemoViewer_connect_keeps_remotes(from, to, w) ==
    IF Validate(from.id.node, to.id.node, to.id.input) = "accept"
    THEN Snarl_connect(w, from.id, to.id)
    ELSE w

\* connect moving the source: the wires the output pin already has go too.
DemoViewer_connect_moves_source(from, to, w) ==
    IF Validate(from.id.node, to.id.node, to.id.input) = "accept"
    THEN Snarl_connect(
            {x \in DisconnectRemotes(w, to.remotes, to.id) : x[1] # from.id},
            from.id, to.id)
    ELSE w

\* DemoViewer::connect(from: &OutPin, to: &InPin, snarl): the wires after.
DemoViewer_connect(from, to, w) ==
    IF Validate(from.id.node, to.id.node, to.id.input) = "accept"
    THEN Snarl_connect(DisconnectRemotes(w, to.remotes, to.id), from.id, to.id)
    ELSE w

\* The wirings in which an input pin has at most one incoming wire: each
\* input pin picks its one remote, or none.
SingleIncomingGraphs ==
    {{<<f[i], i>> : i \in {j \in InPinIds : f[j] # NoPin}} :
        f \in [InPinIds -> OutPinIds \cup {NoPin}]}

NoCall == [outcome |-> "none"]

GraphAtRest ==
    /\ wires = {}
    /\ connect_call = NoCall

NoWire == [pin |-> NoPin]

NoFrame ==
    [pending_before |-> FALSE, secondary_down |-> FALSE, fired |-> {},
     hovered_dest |-> FALSE, connects |-> 0, graph_changed |-> FALSE,
     mutations |-> {}]

FrameAtRest ==
    /\ new_wire = NoWire
    /\ frame = NoFrame

\* The values the viewport and grid variables rest at in the
\* specifications that are not about them.
NoViewport == [scale |-> <<1, 1>>]

NoConv == [kind |-> "none"]

NoGrid == [angle |-> 0]

NoPaint == [drawn |-> FALSE]

ViewAtRest ==
    /\ viewport = NoViewport
    /\ conv = NoConv
    /\ grid = NoGrid
    /\ painted = NoPaint

NoRebind == [outcome |-> "none", old |-> <<>>, new |-> <<>>, accessed |-> {}]

ExprAtRest ==
    /\ bindings = <<>>
    /\ rebind = NoRebind

EventsAtRest ==
    /\ response = IdleResponse
    /\ input_state = IdleInput
    /\ method = "none"
    /\ result = FALSE
    /\ drag = "None"
    /\ drag_before = "None"
    /\ node_moved = {}
    /\ called_on = NoNode
    /\ entered_on = NoNode

InitConnect ==
    /\ EventsAtRest
    /\ FrameAtRest
    /\ ExprAtRest
    /\ ViewAtRest
    /\ wires \in SingleIncomingGraphs
    /\ connect_call = NoCall

\* One call of connect, with the pins as the graph has them at the call.
Connect ==
    \E f \in OutPinIds, t \in InPinIds :
        LET from == out_pin(wires, f)
            to == in_pin(wires, t)
        IN  /\ Validate(f.node, t.node, t.input) # "unreachable"
            /\ wires' = DemoViewer_connect(from, to, wires)
            /\ connect_call' =
                  [outcome |-> Validate(f.node, t.node, t.input),
                   from |-> from, to |-> to, before |-> wires]
            /\ UNCHANGED <<event_vars, frame_vars, view_vars, expr_vars>>

NextConnect == Connect

SpecConnect == InitConnect /\ [][NextConnect]_vars

\* C2: single-incoming-edge invariant.  Starting from a graph in which
\* every input pin has at most one incoming wire, after any sequence of
\* DemoViewer::connect calls every input pin has at most one incoming wire.
C2_SingleIncomingEdge ==
    \A t \in InPinIds : Cardinality(in_pin(wires, t).remotes) <= 1

\* An accepted connect has replaced the wire of an occupied input pin.
C2_Witness ==
    /\ connect_call.outcome = "accept"
    /\ connect_call.to.remotes # {}
    /\ connect_call.from.id \notin connect_call.to.remotes
    /\ <<connect_call.from.id, connect_call.to.id>> \in wires

---------------------------------------------------------------------------
(* DefaultGraphEvents: every method is the trait's default.  A frame's     *)
(* response and input state are drawn at the start; each action is one     *)
(* method call on them.                                                    *)

\* No default method reads the keyboard's Escape key or the raw pointer
\* delta, so the frames of the default policy leave them at rest.
DefaultInputStates ==
    {i \in InputStates : ~i.escape /\ i.pointer_delta = ZERO}

Returns(m, v) ==
    /\ method' = m
    /\ result' = v
    /\ UNCHANGED <<response, input_state, drag, drag_before, node_moved>>
    /\ UNCHANGED <<called_on, entered_on>>
    /\ UNCHANGED <<graph_vars, frame_vars, view_vars, expr_vars>>

InitDefault ==
    /\ response \in Responses
    /\ input_state \in DefaultInputStates
    /\ method = "none"
    /\ result = FALSE
    /\ drag = "None"
    /\ drag_before = "None"
    /\ node_moved = {}
    /\ called_on = NoNode
    /\ entered_on = NoNode
    /\ GraphAtRest
    /\ FrameAtRest
    /\ ExprAtRest
    /\ ViewAtRest

Call_remove_hovered_wire ==
    Returns("remove_hovered_wire", remove_hovered_wire(response, input_state))
Call_start_select_area ==
    Returns("start_select_area", start_select_area(response, input_state))
Call_stop_select_area ==
    Returns("stop_select_area", stop_select_area(response, input_state))
Call_move_area ==
    Returns("move_area", move_area(response, input_state))
Call_move_area_delta ==
    Returns("move_area_delta", move_area_delta(response, input_state))
Call_cancel_new_wire ==
    Returns("cancel_new_wire", cancel_new_wire(response, input_state))
Call_do_centering ==
    Returns("do_centering", do_centering(response, input_state))
Call_deselect_all_nodes ==
    Returns("deselect_all_nodes", deselect_all_nodes(response, input_state))
Call_node_move ==
    Returns("node_move", node_move(response, input_state))
Call_node_move_delta ==
    Returns("node_move_delta", node_move_delta(response, input_state))
Call_select_one_node ==
    Returns("select_one_node", select_one_node(response, input_state))
Call_deselect_one_node ==
    Returns("deselect_one_node", deselect_one_node(response, input_state))
Call_not_to_top ==
    Returns("not_to_top", not_to_top(response, input_state))
Call_remove_wire ==
    Returns("remove_wire", remove_wire(response, input_state))
Call_start_drag_wire ==
    Returns("start_drag_wire", start_drag_wire(response, input_state))
Call_stop_drag_wire ==
    Returns("stop_drag_wire", stop_drag_wire(response, input_state))
Call_start_new_wire_out ==
    Returns("start_new_wire_out", start_new_wire_out(response, input_state))
Call_start_new_wire_in ==
    Returns("start_new_wire_in", start_new_wire_in(response, input_state))
Call_drop_inputs_pin ==
    Returns("drop_inputs_pin", drop_inputs_pin(response, input_state))

NextDefault ==
    \/ Call_remove_hovered_wire
    \/ Call_start_select_area
    \/ Call_stop_select_area
    \/ Call_move_area
    \/ Call_move_area_delta
    \/ Call_cancel_new_wire
    \/ Call_do_centering
    \/ Call_deselect_all_nodes
    \/ Call_node_move
    \/ Call_node_move_delta
    \/ Call_select_one_node
    \/ Call_deselect_one_node
    \/ Call_not_to_top
    \/ Call_remove_wire
    \/ Call_start_drag_wire
    \/ Call_stop_drag_wire
    \/ Call_start_new_wire_out
    \/ Call_start_new_wire_in
    \/ Call_drop_inputs_pin

SpecDefault == InitDefault /\ [][NextDefault]_vars

---------------------------------------------------------------------------
(* The interaction pass of one frame under the default policy.  The pass   *)
(* asks the policy about the background's response, then about each       *)
(* node's, then about each pin's, and performs the action of every method  *)
(* that answers true.  The pointer is on one widget in a frame: that       *)
(* widget has the frame's response, every other widget the idle one.       *)

\* The canvas of the frames holds three of the nodes: outputs that are
\* accepted and rejected by the inputs, and inputs with and without a rule.
FrameNodes == {Sink, String, ShowImage}
FramePins == {p \in OutPinIds \cup InPinIds : p.node \in FrameNodes}

Widgets ==
    {[kind |-> "background"]}
        \cup [kind : {"node"}, node : FrameNodes]
        \cup [kind : {"pin"}, pin : FramePins]

\* The responses of one pointer gesture: every event of the response is by
\* the same button, and a double click is a primary click.
FrameResponses ==
    {r \in Responses :
        /\ r.drag_delta = ZERO
        /\ \E b \in Buttons :
              r.clicked \cup r.dragged \cup r.drag_stopped \subseteq {b}
        /\ r.double_clicked => r.clicked = {"Primary"}}

\* While a wire is pending the drag that draws it owns the pointer: the
\* frame's response is that of the pin the wire was started on, and it
\* reports the drag going on or stopping, no click and no new drag.
OwnedBy(nw, t, r) ==
    nw # NoWire =>
        /\ t = [kind |-> "pin", pin |-> nw.pin]
        /\ r.clicked = {}
        /\ r.drag_started = {}
        /\ ~r.double_clicked

IsOut(p) == p \in OutPinIds
IsIn(p) == p \in InPinIds

\* The pins a pending wire from p may be dropped on: the other kind of pin.
Opposite(p, h) == (IsOut(p) /\ IsIn(h)) \/ (IsIn(p) /\ IsOut(h))
FromOf(p, h) == IF IsOut(p) THEN p ELSE h
ToOf(p, h) == IF IsOut(p) THEN h ELSE p

DropPin(w, p) == {x \in w : x[1] # p /\ x[2] # p}

\* The methods that answer true in a frame, each asked about the response
\* of the widget it is about.
Fired(bg, nd, pn, i) ==
    (IF remove_hovered_wire(bg, i) THEN {"remove_hovered_wire"} ELSE {})
    \cup (IF start_select_area(bg, i) THEN {"start_select_area"} ELSE {})
    \cup (IF stop_select_area(bg, i) THEN {"stop_select_area"} ELSE {})
    \cup (IF move_area(bg, i) THEN {"move_area"} ELSE {})
    \cup (IF cancel_new_wire(bg, i) THEN {"cancel_new_wire"} ELSE {})
    \cup (IF do_centering(bg, i) THEN {"do_centering"} ELSE {})
    \cup (IF deselect_all_nodes(bg, i) THEN {"deselect_all_nodes"} ELSE {})
    \cup (IF node_move(nd, i) THEN {"node_move"} ELSE {})
    \cup (IF select_one_node(nd, i) THEN {"select_one_node"} ELSE {})
    \cup (IF deselect_one_node(nd, i) THEN {"deselect_one_node"} ELSE {})
    \cup (IF remove_wire(pn, i) THEN {"remove_wire"} ELSE {})
    \cup (IF start_drag_wire(pn, i) THEN {"start_drag_wire"} ELSE {})
    \cup (IF stop_drag_wire(pn, i) THEN {"stop_drag_wire"} ELSE {})
    \cup (IF start_new_wire_out(pn, i) THEN {"start_new_wire_out"} ELSE {})
    \cup (IF start_new_wire_in(pn, i) THEN {"start_new_wire_in"} ELSE {})
    \cup (IF drop_inputs_pin(pn, i) THEN {"drop_inputs_pin"} ELSE {})

\* The wires after the removals of a frame: the hovered wire, and the
\* wires of the pin under the pointer.
AfterRemovals(w, fired, t, hw) ==
    LET w1 == IF "remove_hovered_wire" \in fired /\ hw \in w
              THEN w \ {hw} ELSE w
        w2 == IF "remove_wire" \in fired THEN DropPin(w1, t.pin) ELSE w1
    IN  IF "drop_inputs_pin" \in fired THEN DropPin(w2, t.pin) ELSE w2

StartsWire(fired) ==
    /\ "start_drag_wire" \in fired
    /\ \/ "start_new_wire_out" \in fired
       \/ "start_new_wire_in" \in fired

\* The kinds of mutation a frame makes, `removed` telling whether a wire
\* was removed.
Mutations(fired, removed) ==
    (IF removed THEN {"wire removed"} ELSE {})
    \cup (IF StartsWire(fired) THEN {"new wire pending"} ELSE {})
    \cup (IF fired \cap {"move_area", "do_centering"} # {}
          THEN {"pan offset updated"} ELSE {})
    \cup (IF fired \cap {"deselect_all_nodes", "stop_select_area",
                         "select_one_node", "deselect_one_node"} # {}
          THEN {"selection set updated"} ELSE {})
    \cup (IF "node_move" \in fired THEN {"nodes moved by delta"} ELSE {})

\* One frame: the input state i, the widget t under the pointer with its
\* response r, the pin h hovered while a wire is drawn, the wire hw hovered
\* on the background.  Background first, then nodes, then pins: a wire
\* cancelled by the background's cancel_new_wire is gone when the pin's
\* stop_drag_wire is acted on.
FrameStep(i, t, r, h, hw) ==
    \E fired \in {Fired(IF t.kind = "background" THEN r ELSE IdleResponse,
                        IF t.kind = "node" THEN r ELSE IdleResponse,
                        IF t.kind = "pin" THEN r ELSE IdleResponse, i)} :
    \E w3 \in {AfterRemovals(wires, fired, t, hw)} :
    \E nw1 \in {IF "cancel_new_wire" \in fired THEN NoWire ELSE new_wire} :
    \E landed \in {/\ "stop_drag_wire" \in fired
                   /\ nw1 # NoWire
                   /\ h # NoPin
                   /\ Opposite(nw1.pin, h)} :
    \E w4 \in {IF landed
               THEN DemoViewer_connect(out_pin(w3, FromOf(nw1.pin, h)),
                                       in_pin(w3, ToOf(nw1.pin, h)), w3)
               ELSE w3} :
        /\ wires' = w4
        /\ new_wire' =
              IF "stop_drag_wire" \in fired THEN NoWire
              ELSE IF StartsWire(fired) THEN [pin |-> t.pin]
              ELSE nw1
        /\ frame' =
              [pending_before |-> new_wire # NoWire,
               secondary_down |-> i.secondary_down,
               fired |-> fired,
               hovered_dest |->
                   /\ new_wire # NoWire
                   /\ h # NoPin
                   /\ Opposite(new_wire.pin, h)
                   /\ Validate(FromOf(new_wire.pin, h).node,
                               ToOf(new_wire.pin, h).node,
                               ToOf(new_wire.pin, h).input) = "accept",
               connects |-> IF landed THEN 1 ELSE 0,
               graph_changed |-> w4 # wires,
               mutations |-> Mutations(fired, w3 # wires)]
        /\ UNCHANGED <<event_vars, connect_call, view_vars, expr_vars>>

InitFrame ==
    /\ EventsAtRest
    /\ GraphAtRest
    /\ FrameAtRest
    /\ ExprAtRest
    /\ ViewAtRest

\* A frame with no wire pending: the pointer is on any widget.
IdleFrame ==
    /\ new_wire = NoWire
    /\ \E i \in DefaultInputStates, t \in Widgets, r \in FrameResponses :
          \E hw \in (IF remove_hovered_wire(r, i) /\ t.kind = "background"
                     THEN wires ELSE {}) \cup {<<NoPin, NoPin>>} :
              FrameStep(i, t, r, NoPin, hw)

\* A frame while a wire is pending: the pointer hovers a pin, or none.
DrawingNewWireFrame ==
    /\ new_wire # NoWire
    /\ \E i \in DefaultInputStates, r \in FrameResponses,
          h \in FramePins \cup {NoPin} :
          /\ OwnedBy(new_wire, [kind |-> "pin", pin |-> new_wire.pin], r)
          /\ FrameStep(i, [kind |-> "pin", pin |-> new_wire.pin], r, h,
                       <<NoPin, NoPin>>)

NextFrame ==
    \/ IdleFrame
    \/ DrawingNewWireFrame

SpecFrame == InitFrame /\ [][NextFrame]_vars

\* C3: once a wire is pending, a frame in which the secondary pointer
\* button is held down (cancel_new_wire) clears the pending wire, issues
\* no connect call and leaves the graph as it was, also when the drag stops
\* in that frame over a pin the wire could be connected to.
C3_CancelClearsPendingWire ==
    (frame.pending_before /\ frame.secondary_down) =>
        /\ new_wire = NoWire
        /\ frame.connects = 0
        /\ ~frame.graph_changed

C3_Witness ==
    /\ frame.pending_before
    /\ frame.secondary_down
    /\ "cancel_new_wire" \in frame.fired
    /\ "stop_drag_wire" \in frame.fired
    /\ frame.hovered_dest
    /\ new_wire = NoWire
    /\ frame.connects = 0

\* C5 as claimed, in the case it names: no frame both removes a pin's
\* wires and starts a new pending wire.
C5_DropAndNewWireExclusive ==
    {"drop_inputs_pin", "start_new_wire_out"} \subseteq frame.fired
        => ~({"wire removed", "new wire pending"} \subseteq frame.mutations)

---------------------------------------------------------------------------
(* ClickGraphEvents: node_move and node_move_delta are overridden and keep *)
(* a drag-mode, ItemDragged, across calls.                                 *)

ItemDragged == {"None", "Node", "Wire"}

\* node_move with the Escape test of the Node arm left out.
ClickGraphEvents_node_move_no_escape(d, r, i) ==
    CASE d = "None" ->
            IF ~i.shift /\ ~i.command /\ clicked_by(r, "Primary")
            THEN [drag |-> "Node", ret |-> TRUE]
            ELSE [drag |-> "None", ret |-> FALSE]
      [] d = "Node" ->
            IF clicked_by(r, "Primary")
            THEN [drag |-> "None", ret |-> FALSE]
            ELSE [drag |-> "Node", ret |-> TRUE]
      [] d = "Wire" -> [drag |-> "Wire", ret |-> FALSE]

\* node_move returning true once more in the call that ends the move.
ClickGraphEvents_node_move_true_at_end(d, r, i) ==
    CASE d = "None" ->
            IF ~i.shift /\ ~i.command /\ clicked_by(r, "Primary")
            THEN [drag |-> "Node", ret |-> TRUE]
            ELSE [drag |-> "None", ret |-> FALSE]
      [] d = "Node" ->
            IF key_pressed_Escape(i) \/ clicked_by(r, "Primary")
            THEN [drag |-> "None", ret |-> TRUE]
            ELSE [drag |-> "Node", ret |-> TRUE]
      [] d = "Wire" -> [drag |-> "Wire", ret |-> FALSE]

\* node_move ending the move at a click of any pointer button.
ClickGraphEvents_node_move_any_click(d, r, i) ==
    CASE d = "None" ->
            IF ~i.shift /\ ~i.command /\ clicked_by(r, "Primary")
            THEN [drag |-> "Node", ret |-> TRUE]
            ELSE [drag |-> "None", ret |-> FALSE]
      [] d = "Node" ->
            IF key_pressed_Escape(i) \/ clicked(r)
            THEN [drag |-> "None", ret |-> FALSE]
            ELSE [drag |-> "Node", ret |-> TRUE]
      [] d = "Wire" -> [drag |-> "Wire", ret |-> FALSE]

\* The drag-mode after the call and the value returned.
ClickGraphEvents_node_move(d, r, i) ==
    CASE d = "None" ->
            IF ~i.shift /\ ~i.command /\ clicked_by(r, "Primary")
            THEN [drag |-> "Node", ret |-> TRUE]
            ELSE [drag |-> "None", ret |-> FALSE]
      [] d = "Node" ->
            IF key_pressed_Escape(i) \/ clicked_by(r, "Primary")
            THEN [drag |-> "None", ret |-> FALSE]
            ELSE [drag |-> "Node", ret |-> TRUE]
      [] d = "Wire" -> [drag |-> "Wire", ret |-> FALSE]

\* node_move_delta answering with the response's drag delta, as the
\* default policy does, while a node is being moved.
ClickGraphEvents_node_move_delta_of_response(d, r, i) ==
    IF d = "Node" THEN drag_delta(r) ELSE ZERO

ClickGraphEvents_node_move_delta(d, r, i) ==
    IF d = "Node" THEN pointer_delta(i) ELSE ZERO

\* The two overridden methods read the response's primary click and, not
\* at all, its drag delta; the input's Shift, Ctrl/Cmd, Escape and pointer
\* delta.  The frames of this specification vary exactly these.
ClickResponses ==
    {r \in Responses :
        /\ ~r.double_clicked
        /\ r.dragged = {}
        /\ r.drag_stopped = {}}

ClickInputStates == {i \in InputStates : ~i.secondary_down}

\* The call is made in the frame of the call before it: it is handed the
\* same response and the same input state.
SameFrame(r, i) == r = response /\ i = input_state

InitClick ==
    /\ EventsAtRest
    /\ GraphAtRest
    /\ FrameAtRest
    /\ ExprAtRest
    /\ ViewAtRest

Click_node_move ==
    \E r \in ClickResponses, i \in ClickInputStates :
        /\ response' = r
        /\ input_state' = i
        /\ method' = "node_move"
        /\ drag_before' = drag
        /\ drag' = ClickGraphEvents_node_move(drag, r, i).drag
        /\ result' = ClickGraphEvents_node_move(drag, r, i).ret
        /\ node_moved' = {ClickGraphEvents_node_move(drag, r, i).ret}
        /\ UNCHANGED <<called_on, entered_on, graph_vars, frame_vars, view_vars, expr_vars>>

Click_node_move_delta ==
    \E r \in ClickResponses, i \in ClickInputStates :
        /\ response' = r
        /\ input_state' = i
        /\ method' = "node_move_delta"
        /\ drag_before' = drag
        /\ drag' = drag
        /\ result' = ClickGraphEvents_node_move_delta(drag, r, i)
        /\ node_moved' = IF SameFrame(r, i) THEN node_moved ELSE {}
        /\ UNCHANGED <<called_on, entered_on, graph_vars, frame_vars, view_vars, expr_vars>>

NextClick ==
    \/ Click_node_move
    \/ Click_node_move_delta

SpecClick == InitClick /\ [][NextClick]_vars

QualifyingClick(r, i) ==
    "Primary" \in r.clicked /\ ~i.shift /\ ~i.command

\* C1: click-based policy.  A node_move call entered with drag-mode None
\* whose response is clicked by the primary button with Shift and Ctrl/Cmd
\* released leaves the drag-mode at Node and returns true; a node_move call
\* entered with drag-mode Node whose input has Escape pressed leaves the
\* drag-mode at None and returns false in that call.
C1_ClickThenEscape ==
    method = "node_move" =>
        /\ (drag_before = "None" /\ QualifyingClick(response, input_state))
              => (drag = "Node" /\ result = TRUE)
        /\ (drag_before = "Node" /\ input_state.escape)
              => (drag = "None" /\ result = FALSE)

\* The second half of C1 has happened: the drag-mode Node (entered by a
\* qualifying click) was left by a call with Escape pressed and no click.
C1_Witness ==
    /\ method = "node_move"
    /\ drag_before = "Node"
    /\ input_state.escape
    /\ response.clicked = {}
    /\ drag = "None"
    /\ result = FALSE

\* C7 as claimed: whatever the drag-mode at entry, a node_move call whose
\* input has Escape pressed leaves the drag-mode at None and returns false.
C7_EscapeAlwaysResets ==
    (method = "node_move" /\ input_state.escape)
        => (drag = "None" /\ result = FALSE)

---------------------------------------------------------------------------
(* Claims about the default policy.                                        *)

\* C9: under the default policy node_move returns true exactly when the
\* response is dragged by the primary button with Shift and Ctrl/Cmd both
\* released, and whenever it returns true neither select_one_node nor
\* deselect_one_node, evaluated on the same response and input, is true.
C9_NodeMoveExcludesSelection ==
    method = "node_move" =>
        /\ result = (/\ "Primary" \in response.dragged
                     /\ ~input_state.shift
                     /\ ~input_state.command)
        /\ result = TRUE =>
              /\ ~select_one_node(response, input_state)
              /\ ~deselect_one_node(response, input_state)

C9_Witness ==
    /\ method = "node_move"
    /\ result = TRUE
    /\ "Primary" \in response.dragged


\* C4 as claimed: panning and box-selecting are mutually exclusive under the
\* default policy: when move_area returns true for a frame's background
\* response and input, start_select_area does not (a drag started by the
\* primary button being also a drag by the primary button).
C4_PanExcludesBoxSelect ==
    (method = "move_area" /\ result = TRUE)
        => ~start_select_area(response, input_state)

ShiftPrimaryDragStart(r, i) ==
    "Primary" \in r.drag_started /\ i.shift

\* C6 as claimed: on a response with a primary drag-start and Shift held,
\* start_select_area returns true and neither start_drag_wire nor
\* node_move returns true.
C6_ShiftDragStartOnlySelects ==
    ShiftPrimaryDragStart(response, input_state) =>
        /\ method = "start_select_area" => result = TRUE
        /\ method = "start_drag_wire" => result = FALSE
        /\ method = "node_move" => result = FALSE

\* C6 amended: on a response with a primary drag-start and Shift held,
\* start_select_area returns true and node_move returns false, while
\* start_drag_wire, which reads no modifier, returns true.
C6_ShiftDragStartAmended ==
    ShiftPrimaryDragStart(response, input_state) =>
        /\ method = "start_select_area" => result = TRUE
        /\ method = "start_drag_wire" => result = TRUE
        /\ method = "node_move" => result = FALSE

C6_Witness ==
    /\ ShiftPrimaryDragStart(response, input_state)
    /\ method = "start_drag_wire"
    /\ result = TRUE
    /\ start_select_area(response, input_state)
    /\ ~node_move(response, input_state)

\* C8 as claimed: stop_drag_wire returns true exactly when the response
\* reports a drag stopped by the primary button.
C8_StopDragWirePrimaryOnly ==
    method = "stop_drag_wire"
        => (result = ("Primary" \in response.drag_stopped))

\* C10: start_new_wire_out is true iff primary drag-start with Ctrl/Cmd
\* held, start_new_wire_in iff primary drag-start with Ctrl/Cmd released;
\* exactly one of the two is true when start_drag_wire is true, and neither
\* is true when it is false.
C10_WireStartPartition ==
    /\ method = "start_new_wire_out" =>
          result = ("Primary" \in response.drag_started /\ input_state.command)
    /\ method = "start_new_wire_in" =>
          result = ("Primary" \in response.drag_started /\ ~input_state.command)
    /\ method = "start_drag_wire" =>
          IF result = TRUE
          THEN start_new_wire_out(response, input_state)
                  # start_new_wire_in(response, input_state)
          ELSE /\ ~start_new_wire_out(response, input_state)
               /\ ~start_new_wire_in(response, input_state)

C10_Witness ==
    /\ method = "start_drag_wire"
    /\ result = TRUE
    /\ input_state.command
    /\ start_new_wire_out(response, input_state)
    /\ ~start_new_wire_in(response, input_state)

---------------------------------------------------------------------------
(* Claims about the click-based policy.                                    *)

\* C12: a ClickGraphEvents::node_move_delta call returns the input's raw
\* pointer delta when it is entered with drag-mode Node and the zero vector
\* when entered with any other drag-mode, whatever drag delta the response
\* carries, and it leaves the drag-mode as it found it.
C12_NodeMoveDeltaIsPointerDelta ==
    method = "node_move_delta" =>
        /\ drag = drag_before
        /\ drag_before = "Node" => result = input_state.pointer_delta
        /\ drag_before # "Node" => result = ZERO

\* A node_move_delta call made while a node is being moved has returned a
\* pointer delta that is neither zero nor the response's drag delta.
C12_Witness ==
    /\ method = "node_move_delta"
    /\ drag_before = "Node"
    /\ result # ZERO
    /\ result = input_state.pointer_delta
    /\ response.drag_delta # ZERO
    /\ response.drag_delta # result

\* C20: a ClickGraphEvents::node_move call returns true exactly when the
\* drag-mode is Node as the call returns; and a node_move_delta call made
\* after node_move in the same frame returns a non-zero vector only if that
\* node_move call returned true.
C20_MoveTrueIffDraggingNode ==
    /\ method = "node_move" => (result = TRUE <=> drag = "Node")
    /\ (method = "node_move_delta" /\ node_moved # {} /\ result # ZERO)
          => node_moved = {TRUE}

\* node_move returned true and node_move_delta, called after it in the same
\* frame, returned a non-zero vector.
C20_Witness ==
    /\ method = "node_move_delta"
    /\ node_moved = {TRUE}
    /\ result # ZERO
    /\ drag = "Node"

---------------------------------------------------------------------------
(* The whole of ClickGraphEvents: the trait's methods by name, the two the *)
(* impl block overrides and the seventeen it inherits.                     *)

Methods ==
    {"remove_hovered_wire", "start_select_area", "stop_select_area",
     "move_area", "move_area_delta", "cancel_new_wire", "do_centering",
     "deselect_all_nodes", "node_move", "node_move_delta",
     "select_one_node", "deselect_one_node", "not_to_top", "remove_wire",
     "start_drag_wire", "stop_drag_wire", "start_new_wire_out",
     "start_new_wire_in", "drop_inputs_pin"}

OverriddenMethods == {"node_move", "node_move_delta"}

InheritedMethods == Methods \ OverriddenMethods

\* The provided body of the trait method m.
GraphEvents_provided(m, r, i) ==
    CASE m = "remove_hovered_wire" -> remove_hovered_wire(r, i)
      [] m = "start_select_area" -> start_select_area(r, i)
      [] m = "stop_select_area" -> stop_select_area(r, i)
      [] m = "move_area" -> move_area(r, i)
      [] m = "move_area_delta" -> move_area_delta(r, i)
      [] m = "cancel_new_wire" -> cancel_new_wire(r, i)
      [] m = "do_centering" -> do_centering(r, i)
      [] m = "deselect_all_nodes" -> deselect_all_nodes(r, i)
      [] m = "node_move" -> node_move(r, i)
      [] m = "node_move_delta" -> node_move_delta(r, i)
      [] m = "select_one_node" -> select_one_node(r, i)
      [] m = "deselect_one_node" -> deselect_one_node(r, i)
      [] m = "not_to_top" -> not_to_top(r, i)
      [] m = "remove_wire" -> remove_wire(r, i)
      [] m = "start_drag_wire" -> start_drag_wire(r, i)
      [] m = "stop_drag_wire" -> stop_drag_wire(r, i)
      [] m = "start_new_wire_out" -> start_new_wire_out(r, i)
      [] m = "start_new_wire_in" -> start_new_wire_in(r, i)
      [] m = "drop_inputs_pin" -> drop_inputs_pin(r, i)

\* impl GraphEvents for DefaultGraphEvents {}: every method is the provided
\* one; the policy has no state.
DefaultGraphEvents_method(m, r, i) == GraphEvents_provided(m, r, i)

\* The click policy with a select_one_node of its own, which answers to a
\* plain primary click while no node is being moved.
ClickGraphEvents_method_overrides_select(m, d, r, i) ==
    CASE m = "node_move" -> ClickGraphEvents_node_move(d, r, i)
      [] m = "node_move_delta" ->
            [drag |-> d, ret |-> ClickGraphEvents_node_move_delta(d, r, i)]
      [] m = "select_one_node" ->
            [drag |-> d, ret |-> d = "None" /\ clicked_by(r, "Primary")]
      [] OTHER -> [drag |-> d, ret |-> GraphEvents_provided(m, r, i)]

\* The click policy taking note of a wire drag when asked start_drag_wire.
ClickGraphEvents_method_notes_wire(m, d, r, i) ==
    CASE m = "node_move" -> ClickGraphEvents_node_move(d, r, i)
      [] m = "node_move_delta" ->
            [drag |-> d, ret |-> ClickGraphEvents_node_move_delta(d, r, i)]
      [] m = "start_drag_wire" ->
            [drag |-> "Wire", ret |-> GraphEvents_provided(m, r, i)]
      [] OTHER -> [drag |-> d, ret |-> GraphEvents_provided(m, r, i)]

\* impl GraphEvents for ClickGraphEvents: the drag-mode after the call of
\* method m and the value returned.  The methods the impl block does not
\* define are the provided ones, which have no access to the drag-mode.
ClickGraphEvents_method(m, d, r, i) ==
    CASE m = "node_move" -> ClickGraphEvents_node_move(d, r, i)
      [] m = "node_move_delta" ->
            [drag |-> d, ret |-> ClickGraphEvents_node_move_delta(d, r, i)]
      [] OTHER -> [drag |-> d, ret |-> GraphEvents_provided(m, r, i)]

---------------------------------------------------------------------------
(* One inherited method of ClickGraphEvents called on one frame, in any    *)
(* drag-mode a ClickGraphEvents value can hold.  The inherited methods     *)
(* read neither Escape nor the pointer delta.                              *)

InitClickCalls ==
    /\ response \in Responses
    /\ input_state \in DefaultInputStates
    /\ method = "none"
    /\ result = FALSE
    /\ drag \in ItemDragged
    /\ drag_before = drag
    /\ node_moved = {}
    /\ called_on = NoNode
    /\ entered_on = NoNode
    /\ GraphAtRest
    /\ FrameAtRest
    /\ ExprAtRest
    /\ ViewAtRest

ClickCall_inherited ==
    /\ method = "none"
    /\ \E m \in InheritedMethods :
        \E c \in {ClickGraphEvents_method(m, drag, response, input_state)} :
            /\ method' = m
            /\ drag_before' = drag
            /\ drag' = c.drag
            /\ result' = c.ret
            /\ UNCHANGED <<response, input_state, node_moved>>
            /\ UNCHANGED <<called_on, entered_on, graph_vars, frame_vars, view_vars, expr_vars>>

NextClickCalls == ClickCall_inherited

SpecClickCalls == InitClickCalls /\ [][NextClickCalls]_vars

---------------------------------------------------------------------------
(* ClickGraphEvents from ClickGraphEvents::default(), with every method    *)
(* callable and node_move asked about the responses of several nodes.  One *)
(* policy value serves the whole canvas.  The frames vary the primary and  *)
(* other clicks, Shift, Ctrl/Cmd and Escape; the deltas stay zero.         *)

\* The nodes on the canvas.
CanvasNodes == {Number, String}

PolicyResponses == {r \in ClickResponses : r.drag_delta = ZERO}

PolicyInputStates == {i \in ClickInputStates : i.pointer_delta = ZERO}

InitClickPolicy ==
    /\ EventsAtRest
    /\ GraphAtRest
    /\ FrameAtRest
    /\ ExprAtRest
    /\ ViewAtRest

\* The node whose response made the drag-mode Node, once the drag-mode
\* has gone from before to after in a call on the response of node n.
EnteredOn(before, after, n) ==
    IF after # "Node" THEN NoNode
    ELSE IF before # "Node" THEN n
    ELSE entered_on

Policy_node_move ==
    \E n \in CanvasNodes, r \in PolicyResponses, i \in PolicyInputStates :
        \E c \in {ClickGraphEvents_method("node_move", drag, r, i)} :
            /\ response' = r
            /\ input_state' = i
            /\ method' = "node_move"
            /\ drag_before' = drag
            /\ drag' = c.drag
            /\ result' = c.ret
            /\ node_moved' = {c.ret}
            /\ called_on' = n
            /\ entered_on' = EnteredOn(drag, c.drag, n)
            /\ UNCHANGED <<graph_vars, frame_vars, view_vars, expr_vars>>

Policy_node_move_delta ==
    \E n \in CanvasNodes, r \in PolicyResponses, i \in PolicyInputStates :
        \E c \in {ClickGraphEvents_method("node_move_delta", drag, r, i)} :
            /\ response' = r
            /\ input_state' = i
            /\ method' = "node_move_delta"
            /\ drag_before' = drag
            /\ drag' = c.drag
            /\ result' = c.ret
            /\ node_moved' = IF SameFrame(r, i) THEN node_moved ELSE {}
            /\ called_on' = n
            /\ entered_on' = EnteredOn(drag, c.drag, n)
            /\ UNCHANGED <<graph_vars, frame_vars, view_vars, expr_vars>>

\* An inherited method asked in the frame of the call before it.
Policy_inherited ==
    \E m \in InheritedMethods :
        \E c \in {ClickGraphEvents_method(m, drag, response, input_state)} :
            /\ method' = m
            /\ drag_before' = drag
            /\ drag' = c.drag
            /\ result' = c.ret
            /\ entered_on' = EnteredOn(drag, c.drag, called_on)
            /\ UNCHANGED <<response, input_state, node_moved, called_on>>
            /\ UNCHANGED <<graph_vars, frame_vars, view_vars, expr_vars>>

NextClickPolicy ==
    \/ Policy_node_move
    \/ Policy_node_move_delta
    \/ Policy_inherited

SpecClickPolicy == InitClickPolicy /\ [][NextClickPolicy]_vars

\* C18: the drag-mode of the click policy is one state for all nodes.  A
\* node_move call entered with drag-mode Node returns true for the response
\* of any node, the node whose click began the move or another, provided
\* the response carries no primary click and Escape is not pressed.
C18_DragModeSharedByNodes ==
    \A n \in CanvasNodes :
        (/\ method = "node_move"
         /\ called_on = n
         /\ drag_before = "Node"
         /\ "Primary" \notin response.clicked
         /\ ~input_state.escape)
            => result = TRUE

\* A move begun by a click on one node: node_move has returned true for the
\* response of another node, which nobody clicked.
C18_Witness ==
    /\ method = "node_move"
    /\ drag_before = "Node"
    /\ entered_on \in CanvasNodes
    /\ called_on \in CanvasNodes
    /\ called_on # entered_on
    /\ response.clicked = {}
    /\ ~input_state.escape
    /\ result = TRUE

\* C19: in every state reached from ClickGraphEvents::default() by calls
\* of GraphEvents methods, the drag-mode is None or Node; it is never Wire.
C19_WireNeverReached ==
    /\ drag \in {"None", "Node"}
    /\ drag_before \in {"None", "Node"}

\* Calls of both kinds have been made: node_move has made the drag-mode
\* Node and an inherited method, called after it, has left it there.
C19_Witness ==
    /\ method \in InheritedMethods
    /\ drag_before = "Node"
    /\ drag = "Node"
    /\ entered_on \in CanvasNodes

---------------------------------------------------------------------------
(* Claims about DemoViewer::connect.                                       *)

\* The pairs of kinds the claim C13 lists as rejected.
ListedAsRejected(from_node, to_node, to_input) ==
    \/ from_node = Number /\ to_node = ShowImage
    \/ from_node = ShowImage /\ to_node = ShowImage
    \/ from_node = ExprNode /\ to_node = ShowImage
    \/ from_node = ShowImage /\ to_node = ExprNode
    \/ from_node = String /\ to_node = ExprNode /\ to_input # 0

\* C13: a DemoViewer::connect call from a Number or ShowImage or ExprNode
\* output to a ShowImage input, from a ShowImage output to an ExprNode
\* input, or from a String output to an ExprNode input other than input 0
\* returns without the rewiring, and the wires after it are the wires
\* before it, those ending at the destination pin among them.
C13_RejectLeavesWires ==
    (/\ connect_call # NoCall
     /\ ListedAsRejected(connect_call.from.id.node, connect_call.to.id.node,
                         connect_call.to.id.input))
        => /\ connect_call.outcome = "reject"
           /\ wires = connect_call.before
           /\ in_pin(wires, connect_call.to.id).remotes
                 = connect_call.to.remotes

\* A rejected call whose destination pin had a wire: the wire is there.
C13_Witness ==
    /\ connect_call # NoCall
    /\ connect_call.outcome = "reject"
    /\ connect_call.to.remotes # {}
    /\ connect_call.from.id \notin connect_call.to.remotes
    /\ wires = connect_call.before
    /\ wires # {}

\* C17: after an accepted connect(from, to) call the wires ending at the
\* destination pin are exactly the one wire from -> to, and the wires that
\* do not end at the destination pin are the same as before the call.
C17_AcceptReplaces ==
    (connect_call # NoCall /\ connect_call.outcome = "accept") =>
        /\ {w \in wires : w[2] = connect_call.to.id}
              = {<<connect_call.from.id, connect_call.to.id>>}
        /\ {w \in wires : w[2] # connect_call.to.id}
              = {w \in connect_call.before : w[2] # connect_call.to.id}

\* An accepted call has replaced another wire of the destination pin, and
\* the source pin has kept a wire it had to another input pin.
C17_Witness ==
    /\ connect_call # NoCall
    /\ connect_call.outcome = "accept"
    /\ connect_call.to.remotes # {}
    /\ connect_call.from.id \notin connect_call.to.remotes
    /\ connect_call.from.remotes # {}
    /\ connect_call.from.remotes \subseteq out_pin(wires, connect_call.from.id).remotes
    /\ <<connect_call.from.id, connect_call.to.id>> \in wires

---------------------------------------------------------------------------
(* f32, egui::Pos2, egui::Vec2, egui::Rect as Viewport and Grid use them.  *)
(* The model's floats are the whole numbers.  A pair <<n, d>> stands for   *)
(* the factor n/d: the viewport's scale may be below one.                  *)

\* Coordinates of the sampled positions are in -MaxCoord .. MaxCoord.
MaxCoord == 2

\* The scales are the factors n/d with n and d in 1 .. MaxScale.
MaxScale == 2

\* The grid's spacing has its coordinates in 1 .. MaxSpacing.
MaxSpacing == 2

\* The quotient n / d as the float holds it: the nearest representable
\* value, here the nearest whole number, a tie going to the even one.
DivF32(n, d) ==
    LET q == n \div d
        r == n % d
    IN  IF 2 * r < d THEN q
        ELSE IF 2 * r > d THEN q + 1
        ELSE IF q % 2 = 0 THEN q ELSE q + 1

\* x * scale and x / scale for a coordinate x and a scale <<n, d>>.
MulScale(x, scale) == DivF32(x * scale[1], scale[2])

DivScale(x, scale) == DivF32(x * scale[2], scale[1])

\* The division leaves no remainder: the float holds the quotient exactly.
ExactDivScale(x, scale) == (x * scale[2]) % scale[1] = 0

Add(a, b) == <<a[1] + b[1], a[2] + b[2]>>

Sub(a, b) == <<a[1] - b[1], a[2] - b[2]>>

\* egui::Rect::center, as a vector.
Rect_center(rect) ==
    <<DivF32(rect.min[1] + rect.max[1], 2), DivF32(rect.min[2] + rect.max[2], 2)>>

---------------------------------------------------------------------------
(* Viewport: the conversions between screen space and graph space.         *)

\* graph_pos_to_screen adding the offset where the code subtracts it.
graph_pos_to_screen_adds_offset(v, pos) ==
    Add(Add(<<MulScale(pos[1], v.scale), MulScale(pos[2], v.scale)>>,
            v.offset),
        Rect_center(v.rect))

\* screen_pos_to_graph taking the position relative to the rectangle's
\* min corner.
screen_pos_to_graph_from_min(v, pos) ==
    LET p == Sub(Add(pos, v.offset), v.rect.min)
    IN  <<DivScale(p[1], v.scale), DivScale(p[2], v.scale)>>

\* (pos + self.offset - self.rect.center().to_vec2()) / self.scale
screen_pos_to_graph(v, pos) ==
    LET p == Sub(Add(pos, v.offset), Rect_center(v.rect))
    IN  <<DivScale(p[1], v.scale), DivScale(p[2], v.scale)>>

\* pos * self.scale - self.offset + self.rect.center().to_vec2()
graph_pos_to_screen(v, pos) ==
    Add(Sub(<<MulScale(pos[1], v.scale), MulScale(pos[2], v.scale)>>,
            v.offset),
        Rect_center(v.rect))

graph_vec_to_screen(v, size) ==
    <<MulScale(size[1], v.scale), MulScale(size[2], v.scale)>>

screen_vec_to_graph(v, size) ==
    <<DivScale(size[1], v.scale), DivScale(size[2], v.scale)>>

graph_size_to_screen(v, size) == MulScale(size, v.scale)

screen_size_to_graph(v, size) == DivScale(size, v.scale)

---------------------------------------------------------------------------
(* One value taken through the conversions of one Viewport.                *)

\* How many conversions a value is taken through.
MaxConversions == 2

\* The viewport and the screen positions of the end-to-end scenario.
ScenarioViewport ==
    [rect |-> [min |-> <<0, 0>>, max |-> <<800, 600>>],
     scale |-> <<2, 1>>, offset |-> <<0, 0>>]

ScenarioPoints == {<<400, 300>>, <<500, 300>>}

\* Screen rectangles: the scenario's and small ones off the origin, of even
\* width and height, so that the center has whole coordinates.
ScreenRects ==
    {ScenarioViewport.rect}
        \cup {[min |-> d, max |-> Add(d, <<4, 2>>)] : d \in Deltas}

\* scale > 0.
Scales == (1 .. MaxScale) \X (1 .. MaxScale)

Viewports == [rect : ScreenRects, scale : Scales, offset : Deltas]

Points ==
    (((0 - MaxCoord) .. MaxCoord) \X ((0 - MaxCoord) .. MaxCoord))
        \cup ScenarioPoints

Sizes == (0 - MaxCoord) .. MaxCoord

InitViewport ==
    /\ EventsAtRest
    /\ GraphAtRest
    /\ FrameAtRest
    /\ ExprAtRest
    /\ viewport \in Viewports
    /\ \E k \in {"pos", "vec", "size"} :
          \E x \in (IF k = "size" THEN Sizes ELSE Points) :
              conv = [kind |-> k, start |-> x, now |-> x, path |-> <<>>]
    /\ grid = NoGrid
    /\ painted = NoPaint

\* The value is of kind k and is taken through conversion f, which gives y.
Converted(k, f, y) ==
    /\ conv.kind = k
    /\ Len(conv.path) < MaxConversions
    /\ conv' = [conv EXCEPT !.now = y, !.path = Append(@, f)]
    /\ UNCHANGED <<viewport, grid, painted>>
    /\ UNCHANGED <<event_vars, graph_vars, frame_vars, expr_vars>>

Do_screen_pos_to_graph ==
    conv.kind = "pos"
        /\ Converted("pos", "screen_pos_to_graph",
                     screen_pos_to_graph(viewport, conv.now))

Do_graph_pos_to_screen ==
    conv.kind = "pos"
        /\ Converted("pos", "graph_pos_to_screen",
                     graph_pos_to_screen(viewport, conv.now))

Do_graph_vec_to_screen ==
    conv.kind = "vec"
        /\ Converted("vec", "graph_vec_to_screen",
                     graph_vec_to_screen(viewport, conv.now))

Do_screen_vec_to_graph ==
    conv.kind = "vec"
        /\ Converted("vec", "screen_vec_to_graph",
                     screen_vec_to_graph(viewport, conv.now))

Do_graph_size_to_screen ==
    conv.kind = "size"
        /\ Converted("size", "graph_size_to_screen",
                     graph_size_to_screen(viewport, conv.now))

Do_screen_size_to_graph ==
    conv.kind = "size"
        /\ Converted("size", "screen_size_to_graph",
                     screen_size_to_graph(viewport, conv.now))

NextViewport ==
    \/ Do_screen_pos_to_graph
    \/ Do_graph_pos_to_screen
    \/ Do_graph_vec_to_screen
    \/ Do_screen_vec_to_graph
    \/ Do_graph_size_to_screen
    \/ Do_screen_size_to_graph

SpecViewport == InitViewport /\ [][NextViewport]_vars

\* The divisions screen_pos_to_graph makes for the screen position p leave
\* no remainder.
ExactPos(v, p) ==
    LET q == Sub(Add(p, v.offset), Rect_center(v.rect))
    IN  ExactDivScale(q[1], v.scale) /\ ExactDivScale(q[2], v.scale)

\* C14: viewport round trip.  For every viewport (scale > 0) and every
\* screen position p whose division by the scale is exact,
\* graph_pos_to_screen(screen_pos_to_graph(p)) = p; likewise
\* graph_vec_to_screen(screen_vec_to_graph(v)) = v for a vector v and
\* graph_size_to_screen(screen_size_to_graph(s)) = s for a size s.
C14_ViewportRoundTrip ==
    /\ (/\ conv.kind = "pos"
        /\ conv.path = <<"screen_pos_to_graph", "graph_pos_to_screen">>
        /\ ExactPos(viewport, conv.start))
          => conv.now = conv.start
    /\ (/\ conv.kind = "vec"
        /\ conv.path = <<"screen_vec_to_graph", "graph_vec_to_screen">>
        /\ ExactDivScale(conv.start[1], viewport.scale)
        /\ ExactDivScale(conv.start[2], viewport.scale))
          => conv.now = conv.start
    /\ (/\ conv.kind = "size"
        /\ conv.path = <<"screen_size_to_graph", "graph_size_to_screen">>
        /\ ExactDivScale(conv.start, viewport.scale))
          => conv.now = conv.start

\* A screen position has gone to graph space and back through a viewport
\* with a scale other than one and a non-zero offset, off the rectangle's
\* center, and is the position it was.
C14_Witness ==
    /\ conv.kind = "pos"
    /\ conv.path = <<"screen_pos_to_graph", "graph_pos_to_screen">>
    /\ viewport.scale = <<2, 1>>
    /\ viewport.offset # ZERO
    /\ ExactPos(viewport, conv.start)
    /\ conv.start # Rect_center(viewport.rect)
    /\ screen_pos_to_graph(viewport, conv.start) # conv.start
    /\ conv.now = conv.start

\* C15: in the viewport with rect [0,0]-[800,600], scale 2 and offset
\* (0,0), screen_pos_to_graph takes the screen position (400,300) to the
\* graph position (0,0) and the screen position (500,300) to (50,0).
C15_ViewportScenario ==
    (/\ viewport = ScenarioViewport
     /\ conv.kind = "pos"
     /\ conv.path = <<"screen_pos_to_graph">>)
        => /\ conv.start = <<400, 300>> => conv.now = <<0, 0>>
           /\ conv.start = <<500, 300>> => conv.now = <<50, 0>>

\* The second position of the scenario has been converted.
C15_Witness ==
    /\ viewport = ScenarioViewport
    /\ conv.kind = "pos"
    /\ conv.path = <<"screen_pos_to_graph">>
    /\ conv.start = <<500, 300>>
    /\ conv.now = <<50, 0>>

---------------------------------------------------------------------------
(* Grid::draw: the lines of the grid pattern that cross the viewport.      *)

\* ui.spacing().icon_width, which the grid's spacing is a multiple of.
IconWidths == {1, 2}

\* emath::Rot2 for the angles whose sine and cosine are whole numbers: the
\* angle counts quarter turns, the rotation is <<cosine, sine>>.
Angles == 0 .. 3

Rot2_from_angle(angle) ==
    CASE angle = 0 -> <<1, 0>>
      [] angle = 1 -> <<0, 1>>
      [] angle = 2 -> <<0 - 1, 0>>
      [] angle = 3 -> <<0, 0 - 1>>

Rot2_inverse(rot) == <<rot[1], 0 - rot[2]>>

\* rot * v
Rotate(rot, v) ==
    <<rot[1] * v[1] - rot[2] * v[2], rot[2] * v[1] + rot[1] * v[2]>>

SetMin(S) == CHOOSE x \in S : \A y \in S : x <= y

SetMax(S) == CHOOSE x \in S : \A y \in S : x >= y

\* egui::Rect::rotate_bb: the bounding box of the four rotated corners.
Rect_rotate_bb(rect, rot) ==
    LET corners ==
            {Rotate(rot, <<x, y>>) :
                x \in {rect.min[1], rect.max[1]},
                y \in {rect.min[2], rect.max[2]}}
    IN  [min |-> <<SetMin({c[1] : c \in corners}),
                   SetMin({c[2] : c \in corners})>>,
         max |-> <<SetMax({c[1] : c \in corners}),
                   SetMax({c[2] : c \in corners})>>]

\* (n / d).ceil() and (n / d).floor() for a positive d: the float holds the
\* quotient of two small whole numbers on the right side of every whole
\* number.
Ceil(n, d) == 0 - ((0 - n) \div d)

Floor(n, d) == n \div d

\* The loop of one axis with the range 0 .. (max - min), its end left out.
Grid_lines_half_open(lo, hi, sp) ==
    LET min_x == Ceil(lo, sp)
        max_x == Floor(hi, sp)
    IN  [k \in 1 .. (max_x - min_x) |-> ((k - 1) + min_x) * sp]

\* The loop of one axis: for x in 0 ..= (max_x - min_x) as i64, a line at
\* (x as f32 + min_x) * spacing.  The lines in the order drawn.
Grid_lines(lo, hi, sp) ==
    LET min_x == Ceil(lo, sp)
        max_x == Floor(hi, sp)
    IN  [k \in 1 .. ((max_x - min_x) + 1) |-> ((k - 1) + min_x) * sp]

\* Grid::draw(&self, style, viewport, ui): what is painted.
Grid_draw(g, v) ==
    LET spacing == <<g.icon_width * g.spacing[1],
                     g.icon_width * g.spacing[2]>>
        rot_inv == Rot2_inverse(Rot2_from_angle(g.angle))
        graph_viewport ==
            [min |-> screen_pos_to_graph(v, v.rect.min),
             max |-> screen_pos_to_graph(v, v.rect.max)]
        pattern_bounds == Rect_rotate_bb(graph_viewport, rot_inv)
    IN  [drawn |-> TRUE,
         spacing |-> spacing,
         pattern_bounds |-> pattern_bounds,
         xs |-> Grid_lines(pattern_bounds.min[1], pattern_bounds.max[1],
                           spacing[1]),
         ys |-> Grid_lines(pattern_bounds.min[2], pattern_bounds.max[2],
                           spacing[2])]

\* Offsets that take the viewport far from the origin of graph space.
FarOffsets ==
    {Add(<<1000 * d[1], 1000 * d[2]>>, e) : d \in Deltas \ {ZERO}, e \in Deltas}

\* Both components of the spacing are positive.
Grids ==
    [spacing : (1 .. MaxSpacing) \X (1 .. MaxSpacing), angle : Angles,
     icon_width : IconWidths]

InitGrid ==
    /\ EventsAtRest
    /\ GraphAtRest
    /\ FrameAtRest
    /\ ExprAtRest
    /\ viewport \in
          [rect : ScreenRects, scale : Scales,
           offset : Deltas \cup FarOffsets]
    /\ conv = NoConv
    /\ grid \in Grids
    /\ painted = NoPaint

Draw ==
    /\ painted' = Grid_draw(grid, viewport)
    /\ UNCHANGED <<viewport, conv, grid>>
    /\ UNCHANGED <<event_vars, graph_vars, frame_vars, expr_vars>>

NextGrid == Draw

SpecGrid == InitGrid /\ [][NextGrid]_vars

\* The lines of one axis are one for each multiple of the spacing sp from
\* lo to hi and no others, and there are floor((hi - lo) / sp) of them or
\* one more.
OneLinePerIndex(lines, lo, hi, sp) ==
    /\ \A k \in 1 .. (Len(lines) - 1) : lines[k] < lines[k + 1]
    /\ {lines[k] : k \in DOMAIN lines} = {c \in lo .. hi : c % sp = 0}
    /\ Len(lines) - ((hi - lo) \div sp) \in {0, 1}

\* C16: for a positive spacing Grid::draw draws, on each axis, exactly one
\* line for each integer index i with min <= i * spacing <= max of the
\* pattern-space bounds, none when there is no such index; the number of
\* lines is floor((max - min) / spacing) or one more, wherever the bounds
\* lie with respect to the origin.
C16_GridLinesWithinBounds ==
    painted.drawn =>
        /\ OneLinePerIndex(painted.xs, painted.pattern_bounds.min[1],
                           painted.pattern_bounds.max[1], painted.spacing[1])
        /\ OneLinePerIndex(painted.ys, painted.pattern_bounds.min[2],
                           painted.pattern_bounds.max[2], painted.spacing[2])

\* Far from the origin the grid has been drawn with several lines on one
\* axis, the first of them inside the bounds and not on their edge, and
\* with no line on the other axis, whose bounds hold no multiple of the
\* spacing.
C16_Witness ==
    /\ painted.drawn
    /\ painted.pattern_bounds.min[1] > 100
    /\ Len(painted.xs) >= 2
    /\ painted.xs[1] > painted.pattern_bounds.min[1]
    /\ painted.ys = <<>>
    /\ painted.pattern_bounds.max[2] > painted.pattern_bounds.min[2]

---------------------------------------------------------------------------
(* DemoViewer::connect on a graph that starts with no wire.                *)

InitConnectFresh ==
    /\ EventsAtRest
    /\ FrameAtRest
    /\ ExprAtRest
    /\ ViewAtRest
    /\ wires = {}
    /\ connect_call = NoCall

SpecConnectFresh == InitConnectFresh /\ [][NextConnect]_vars

\* The input pins show_input reads a string for: it calls string_out on
\* the node at the other end of the pin's wire.
StringInputs == {p \in InPinIds : p.node \in {ShowImage, ExprNode} /\ p.input = 0}

\* C21 as claimed: after any sequence of DemoViewer::connect calls on a
\* graph that had no wire, every wire into input 0 of the ShowImage node or
\* input 0 of the ExprNode comes from the String node, so that string_out
\* is never called on a node of another kind.
C21_StringInputsDrivenByStrings ==
    \A w \in wires : w[2] \in StringInputs => w[1].node = String

---------------------------------------------------------------------------
(* DemoViewer::show_input on input 0 of the ExprNode, when the text has    *)
(* changed and parses: the bindings are replaced and the wires of the      *)
(* node's input pins are dropped or moved.                                 *)

\* How many variable names an expression may use.
MaxNames == 2

Names == 1 .. MaxNames

\* Expr::extend_bindings pushes a name once: the lists have no duplicate.
BindingLists ==
    {b \in UNION {[1 .. n -> Names] : n \in 0 .. MaxNames} :
        \A j, k \in DOMAIN b : j # k => b[j] # b[k]}

\* InPinId { node: pin.id.node, input: idx }
ExprPin(idx) == [node |-> ExprNode, input |-> idx]

\* new_bindings.iter().position(|new_name| *new_name == *name), counted
\* from 0; -1 stands for None.
Position(list, name) ==
    IF \E k \in DOMAIN list : list[k] = name
    THEN (CHOOSE k \in DOMAIN list :
              list[k] = name /\ \A j \in 1 .. (k - 1) : list[j] # name) - 1
    ELSE 0 - 1

\* for &remote in &inputs[idx].remotes: disconnect from the pin, connect to
\* new_in_pin.
RECURSIVE MoveRemotes(_, _, _, _)
MoveRemotes(w, remotes, from_pin, new_in_pin) ==
    IF remotes = {} THEN w
    ELSE LET remote == CHOOSE r \in remotes : TRUE
         IN  MoveRemotes(
                Snarl_connect(Snarl_disconnect(w, remote, from_pin),
                              remote, new_in_pin),
                remotes \ {remote}, from_pin, new_in_pin)

\* The loop over old_bindings from index idx (counted from 0) on.  ins is
\* the captured list `inputs`; ins[idx + 1] is the code's inputs[idx], and
\* an index past the list's end panics.  Gives the wires, how the loop
\* ended and the indices at which `inputs` was accessed.
RECURSIVE RebindLoop(_, _, _, _, _, _)
RebindLoop(idx, old, new, ins, w, accessed) ==
    IF idx >= Len(old)
    THEN [wires |-> w, outcome |-> "done", accessed |-> accessed]
    ELSE LET new_idx == Position(new, old[idx + 1])
         IN  IF new_idx = idx
             THEN RebindLoop(idx + 1, old, new, ins, w, accessed)
             ELSE IF idx >= Len(ins)
             THEN [wires |-> w, outcome |-> "panic",
                   accessed |-> accessed \cup {idx}]
             ELSE IF new_idx = 0 - 1
             THEN RebindLoop(idx + 1, old, new, ins,
                             Snarl_drop_inputs(w, ins[idx + 1].id),
                             accessed \cup {idx})
             ELSE RebindLoop(idx + 1, old, new, ins,
                             MoveRemotes(w, ins[idx + 1].remotes,
                                         ins[idx + 1].id, ExprPin(new_idx)),
                             accessed \cup {idx})

\* The re-parse: expr_node.bindings becomes new_bindings, `inputs` captures
\* the pins 0 .. bindings.len() - 1 and the loop runs over old_bindings.
ShowInput_rebind(old, new, w) ==
    RebindLoop(0, old, new,
               [k \in 1 .. Len(new) |-> in_pin(w, ExprPin(k - 1))], w, {})

\* The wires connect lets onto the ExprNode's input idx.
ExprSources(idx) ==
    {o \in OutPinIds : Validate(o.node, ExprNode, idx) = "accept"}

\* Wirings of the ExprNode's pins 0 .. n with at most one wire per pin.
ExprWirings(n) ==
    {{<<f[k], ExprPin(k)>> : k \in {j \in 0 .. n : f[j] # NoPin}} :
        f \in {g \in [0 .. n -> OutPinIds \cup {NoPin}] :
                  \A k \in 0 .. n : g[k] \in ExprSources(k) \cup {NoPin}}}

InitRebind ==
    /\ EventsAtRest
    /\ FrameAtRest
    /\ ViewAtRest
    /\ connect_call = NoCall
    /\ bindings \in BindingLists
    /\ wires \in ExprWirings(Len(bindings))
    /\ rebind = NoRebind

\* The text of the expression changes and parses to an expression with the
\* bindings new_bindings.  A panic ends the program.
Rebind ==
    /\ rebind.outcome # "panic"
    /\ \E new_bindings \in BindingLists :
          \E r \in {ShowInput_rebind(bindings, new_bindings, wires)} :
              /\ bindings' = new_bindings
              /\ wires' = r.wires
              /\ rebind' = [outcome |-> r.outcome, old |-> bindings,
                            new |-> new_bindings, accessed |-> r.accessed,
                            before |-> wires]
    /\ UNCHANGED <<event_vars, connect_call, frame_vars, view_vars>>

NextRebind == Rebind

SpecRebind == InitRebind /\ [][NextRebind]_vars

\* Every input pin of the ExprNode has at most one wire in w.
ExprSingleIncoming(w) ==
    \A idx \in 0 .. MaxNames : Cardinality(in_pin(w, ExprPin(idx)).remotes) <= 1

\* C22 as claimed: when the ExprNode's text changes and re-parses, after
\* the loop that drops or moves the wires every input pin of the node has
\* at most one incoming wire, for every old and new binding list and every
\* wiring before that had at most one wire on each input pin.
C22_RebindKeepsSingleIncoming ==
    (rebind.outcome = "done" /\ ExprSingleIncoming(rebind.before))
        => ExprSingleIncoming(wires)

\* C23 as claimed: every access inputs[idx] made while iterating the old
\* bindings is inside the captured list of input pins, whose length is the
\* number of new bindings, also when the new list is the shorter one.
C23_RebindIndexInRange ==
    \A idx \in rebind.accessed : idx < Len(rebind.new)

---------------------------------------------------------------------------
(* A further claim about the default policy.                               *)

\* C24 as claimed: under the default policy select_one_node and
\* deselect_one_node are never both true for the same node response and
\* input state: a frame in which select_one_node returns true is one in
\* which deselect_one_node, asked about the same response and input,
\* returns false.
C24_SelectExcludesDeselect ==
    (method = "select_one_node" /\ result = TRUE)
        => ~deselect_one_node(response, input_state)

====
